---- MODULE Spec2Model ----
(***************************************************************************)
(* Model of consulta_API_2.py: the paginated harvest of TMDb top-rated     *)
(* movies into MongoDB with a page checkpoint kept in page.txt.            *)
(*                                                                         *)
(* Granularity.  Every call of an external library (requests.get, the      *)
(* pymongo calls, open/write of page.txt) is one atomic step: it either    *)
(* takes effect and returns, or raises without effect.  The operating      *)
(* system process can be killed between any two steps of main().           *)
(* time.sleep and print have no effect on the state and are left out.      *)
(***************************************************************************)
EXTENDS Integers, Sequences, FiniteSets

(***************************************************************************)
(* Bounds of the model and constants of the program.                       *)
(***************************************************************************)
\* Last page of the range (500 in the source, reduced for checking).
END_PAGE == 2
\* Number of distinct movie titles the catalogue can return.
NumTitles == 2
\* Largest number of items of a page listing in the orchestrator's runs.
MaxBatch == 2
\* Largest number of items of a page listing when process_page is checked alone.
MaxItems == 3
\* Largest attempt budget get_json is checked with.
MaxBudget == 3
\* Default of get_json's max_retries parameter.
DefaultMaxRetries == 3
\* max_retries of main's page loop.
PageMaxRetries == 3
\* Largest genre, crew and cast lists lines 150-166 are checked with.
MaxGenres == 2
MaxCrew == 3
MaxCast == 10

Titles == 1..NumTitles

(***************************************************************************)
(* get_json (lines 55-85).                                                 *)
(* One attempt's outcome is what requests.get does on that attempt:        *)
(*   "ok"       status 200;                                                *)
(*   "r429"     status 429, Retry-After absent or a decimal integer;       *)
(*   "r429date" status 429, Retry-After not a decimal integer (an          *)
(*              HTTP-date): int() raises ValueError at line 73, which the  *)
(*              except clause of line 79 does not catch;                   *)
(*   "err"      any other status;                                          *)
(*   "net"      requests.get raises a RequestException.                    *)
(* resp[i] is the outcome of the i-th request of the call.  The body of    *)
(* the 200 response to the i-th request is identified by i.                *)
(***************************************************************************)
Outcomes == {"ok", "r429", "r429date", "err", "net"}

RECURSIVE get_json_from(_, _, _)
get_json_from(resp, max_retries, attempt) ==
    IF attempt >= max_retries
    THEN [kind |-> "none", body |-> 0, requests |-> attempt]
    ELSE LET status == resp[attempt + 1] IN
         IF status = "ok"
         THEN [kind |-> "json", body |-> attempt + 1, requests |-> attempt + 1]
         ELSE IF status = "r429date"
         THEN [kind |-> "raise", body |-> 0, requests |-> attempt + 1]
         ELSE get_json_from(resp, max_retries, attempt + 1)

get_json(resp, max_retries) == get_json_from(resp, max_retries, 0)

\* The responses the API gives to the requests of one get_json call in the
\* runs of process_page: immediate success, success on the last attempt,
\* exhaustion of the budget, and an exception out of get_json.
ScriptOk == <<"ok", "ok", "ok">>
ScriptRetryOk == <<"net", "r429", "ok">>
ScriptFail == <<"err", "r429", "net">>
ScriptRaise == <<"err", "r429date", "ok">>
FetchScripts == {ScriptOk, ScriptRetryOk, ScriptFail, ScriptRaise}

(***************************************************************************)
(* get_person_details (lines 87-113): the profile, or None when the        *)
(* lookup fails; an exception of get_json propagates.                      *)
(***************************************************************************)
get_person_details(script) ==
    LET data == get_json(script, DefaultMaxRetries) IN
    IF data.kind = "raise" THEN [kind |-> "raise", value |-> "None"]
    ELSE IF data.kind = "json" THEN [kind |-> "value", value |-> "profile"]
    ELSE [kind |-> "value", value |-> "None"]

(***************************************************************************)
(* Lines 150-178: the record built from the detail and the credits of a    *)
(* movie.  A genre is [name]; a crew entry is [name, job], or [name] when  *)
(* the API gave it no 'job'; a cast entry is [id, name].  person is the    *)
(* API's responses to the person lookup of line 161.                       *)
(***************************************************************************)
\* Python's seq[lo:hi] for 0 <= lo <= hi; Python counts positions from 0.
Slice(seq, lo, hi) ==
    LET stop == IF hi < Len(seq) THEN hi ELSE Len(seq) IN
    [k \in 1..(stop - lo) |-> seq[lo + k]]

\* Line 152.
genero_of(generos) ==
    IF generos # <<>> THEN generos[1].name ELSE "Desconhecido"

\* Mutant of diretor_from: the name of the first crew entry, whatever its job.
RECURSIVE diretor_any_job(_, _)
diretor_any_job(crew, i) ==
    IF i > Len(crew)
    THEN [kind |-> "value", value |-> "Desconhecido"]
    ELSE IF "job" \notin DOMAIN crew[i]
    THEN [kind |-> "raise", value |-> "Desconhecido"]
    ELSE [kind |-> "value", value |-> crew[i].name]

\* Line 155: next() over the generator, from crew entry i on; member['job']
\* raises KeyError on an entry without 'job' that the generator reaches.
RECURSIVE diretor_from(_, _)
diretor_from(crew, i) ==
    IF i > Len(crew)
    THEN [kind |-> "value", value |-> "Desconhecido"]
    ELSE IF "job" \notin DOMAIN crew[i]
    THEN [kind |-> "raise", value |-> "Desconhecido"]
    ELSE IF crew[i].job = "Director"
    THEN [kind |-> "value", value |-> crew[i].name]
    ELSE diretor_from(crew, i + 1)

\* Lines 158-163; lookups lists the person ids get_person_details was
\* called with.
ator_principal_details_of(elenco, person) ==
    IF elenco # <<>>
    THEN LET ator_principal == elenco[1]
             details == get_person_details(person)
         IN [kind |-> details.kind, value |-> details.value,
             lookups |-> <<ator_principal.id>>]
    ELSE [kind |-> "value", value |-> "None", lookups |-> <<>>]

\* Mutant of atores_coadjuvantes_of: the slice starts at the first cast entry.
atores_coadjuvantes_from_lead(elenco) ==
    IF Len(elenco) > 1
    THEN LET part == Slice(elenco, 0, 4) IN
         [k \in DOMAIN part |-> part[k].name]
    ELSE <<>>

\* Line 166.
atores_coadjuvantes_of(elenco) ==
    IF Len(elenco) > 1
    THEN LET part == Slice(elenco, 1, 5) IN
         [k \in DOMAIN part |-> part[k].name]
    ELSE <<>>

\* Lines 150-178 in the order of the code; kind is "append" (the record is
\* built) or "except" (an exception leaves the try block of line 137).
montar_filme_info(generos, crew, elenco, person) ==
    LET genero == genero_of(generos)
        diretor == diretor_from(crew, 1)
    IN IF diretor.kind = "raise"
       THEN [kind |-> "except", lookups |-> <<>>]
       ELSE LET ator_principal_details ==
                    ator_principal_details_of(elenco, person)
            IN IF ator_principal_details.kind = "raise"
               THEN [kind |-> "except",
                     lookups |-> ator_principal_details.lookups]
               ELSE [kind |-> "append",
                     lookups |-> ator_principal_details.lookups,
                     filme_info |->
                         [genero |-> genero,
                          diretor |-> diretor.value,
                          atorPrincipal |-> ator_principal_details.value,
                          atoresCoadjuvantes |-> atores_coadjuvantes_of(elenco)]]

(***************************************************************************)
(* process_page (lines 115-189).                                           *)
(* An item of the listing carries the API's answers for it:                *)
(*   id, titulo      the movie id and the title of its detail record;      *)
(*   detail, credits the responses to the two fetches of lines 141, 146;   *)
(*   badcrew         a crew entry without 'job': KeyError at line 155;     *)
(*   cast            whether the cast list is non-empty;                   *)
(*   person          the responses to the person lookup of line 161.       *)
(* A record is [titulo, movie, atorPrincipal]; movie stands for the fields *)
(* copied from the detail and credits of that movie.                       *)
(***************************************************************************)
\* The crew and cast lists an item's flags stand for.
crew_of(movie) == IF movie.badcrew THEN <<[name |-> "Ana"]>> ELSE <<>>
elenco_of(movie) ==
    IF movie.cast THEN <<[id |-> 1, name |-> "Ana"]>> ELSE <<>>

\* Lines 137-184: one iteration of the loop body.  kind is "append" (line
\* 180), "continue" (lines 143, 148) or "except" (line 183).
enrich(movie) ==
    LET movie_details == get_json(movie.detail, DefaultMaxRetries) IN
    IF movie_details.kind = "raise" THEN [kind |-> "except"]
    ELSE IF movie_details.kind = "none" THEN [kind |-> "continue"]
    ELSE LET credits == get_json(movie.credits, DefaultMaxRetries) IN
         IF credits.kind = "raise" THEN [kind |-> "except"]
         ELSE IF credits.kind = "none" THEN [kind |-> "continue"]
         ELSE LET built == montar_filme_info(<<>>, crew_of(movie),
                                             elenco_of(movie), movie.person)
              IN IF built.kind = "except"
                 THEN [kind |-> "except"]
                 ELSE [kind |-> "append",
                       filme_info |-> [titulo |-> movie.titulo,
                                       movie |-> movie.id,
                                       atorPrincipal |-> built.filme_info.atorPrincipal]]

\* Mutant of process_items: the first item that yields no record ends the loop.
RECURSIVE process_items_break(_, _, _, _)
process_items_break(results, i, page_movies, visited) ==
    IF i > Len(results)
    THEN [movies |-> page_movies, visited |-> visited]
    ELSE LET r == enrich(results[i]) IN
         IF r.kind = "append"
         THEN process_items_break(results, i + 1,
                                  Append(page_movies, r.filme_info),
                                  Append(visited, results[i].id))
         ELSE [movies |-> page_movies,
               visited |-> Append(visited, results[i].id)]

\* Lines 134-189: the loop over the listed items, from item i on.
RECURSIVE process_items(_, _, _, _)
process_items(results, i, page_movies, visited) ==
    IF i > Len(results)
    THEN [movies |-> page_movies, visited |-> visited]
    ELSE LET r == enrich(results[i]) IN
         process_items(results, i + 1,
                       IF r.kind = "append"
                       THEN Append(page_movies, r.filme_info)
                       ELSE page_movies,
                       Append(visited, results[i].id))

\* kind is "raise" (an exception leaves process_page), "listfail" (line 132)
\* or "return" (line 189); visited lists the ids of the items the loop took.
process_page(listing, results) ==
    LET top_rated == get_json(listing, DefaultMaxRetries) IN
    IF top_rated.kind = "raise"
    THEN [kind |-> "raise", movies |-> <<>>, visited |-> <<>>]
    ELSE IF top_rated.kind = "none"
    THEN [kind |-> "listfail", movies |-> <<>>, visited |-> <<>>]
    ELSE LET r == process_items(results, 1, <<>>, <<>>) IN
         [kind |-> "return", movies |-> r.movies, visited |-> r.visited]

(***************************************************************************)
(* save_to_mongodb (lines 191-228).  fault names the pymongo call that     *)
(* raises, if any: "connect" (line 206), "find" (line 209), "insert"       *)
(* (line 215), or "none".  caught tells that the except clause of line 226 *)
(* was taken, contacted that connect_to_mongodb (line 206) was called.     *)
(***************************************************************************)
StoreFaults == {"none", "connect", "find", "insert"}

\* Mutant of save_to_mongodb: the number of records passed in is returned,
\* not the number of records inserted.
save_to_mongodb_count_all(movies, collection, fault) ==
    IF movies = <<>>
    THEN [store |-> collection, ret |-> 0, caught |-> FALSE,
          contacted |-> FALSE]
    ELSE IF fault \in {"connect", "find"}
    THEN [store |-> collection, ret |-> 0, caught |-> TRUE,
          contacted |-> TRUE]
    ELSE LET titulos_existentes ==
                 {collection[i].titulo : i \in DOMAIN collection}
             novos_filmes ==
                 SelectSeq(movies, LAMBDA filme : filme.titulo \notin titulos_existentes)
         IN IF novos_filmes # <<>> /\ fault = "insert"
            THEN [store |-> collection, ret |-> 0, caught |-> TRUE,
                  contacted |-> TRUE]
            ELSE [store |-> collection \o novos_filmes,
                  ret |-> Len(movies), caught |-> FALSE,
                  contacted |-> TRUE]

\* Mutant of save_to_mongodb: the filter of line 212 is missing, every
\* record passed in is inserted.
save_to_mongodb_unfiltered(movies, collection, fault) ==
    IF movies = <<>>
    THEN [store |-> collection, ret |-> 0, caught |-> FALSE,
          contacted |-> FALSE]
    ELSE IF fault \in {"connect", "find"}
    THEN [store |-> collection, ret |-> 0, caught |-> TRUE,
          contacted |-> TRUE]
    ELSE LET novos_filmes == movies
         IN IF fault = "insert"
            THEN [store |-> collection, ret |-> 0, caught |-> TRUE,
                  contacted |-> TRUE]
            ELSE [store |-> collection \o novos_filmes,
                  ret |-> Len(novos_filmes), caught |-> FALSE,
                  contacted |-> TRUE]

\* Mutant of save_to_mongodb: a batch insert that fails keeps the record it
\* had already inserted.
save_to_mongodb_partial(movies, collection, fault) ==
    IF movies = <<>>
    THEN [store |-> collection, ret |-> 0, caught |-> FALSE,
          contacted |-> FALSE]
    ELSE IF fault \in {"connect", "find"}
    THEN [store |-> collection, ret |-> 0, caught |-> TRUE,
          contacted |-> TRUE]
    ELSE LET titulos_existentes ==
                 {collection[i].titulo : i \in DOMAIN collection}
             novos_filmes ==
                 SelectSeq(movies, LAMBDA filme : filme.titulo \notin titulos_existentes)
         IN IF novos_filmes # <<>> /\ fault = "insert"
            THEN [store |-> Append(collection, novos_filmes[1]), ret |-> 0,
                  caught |-> TRUE, contacted |-> TRUE]
            ELSE [store |-> collection \o novos_filmes,
                  ret |-> Len(novos_filmes), caught |-> FALSE,
                  contacted |-> TRUE]

save_to_mongodb(movies, collection, fault) ==
    IF movies = <<>>
    THEN [store |-> collection, ret |-> 0, caught |-> FALSE,
          contacted |-> FALSE]
    ELSE IF fault \in {"connect", "find"}
    THEN [store |-> collection, ret |-> 0, caught |-> TRUE,
          contacted |-> TRUE]
    ELSE LET titulos_existentes ==
                 {collection[i].titulo : i \in DOMAIN collection}
             novos_filmes ==
                 SelectSeq(movies, LAMBDA filme : filme.titulo \notin titulos_existentes)
         IN IF novos_filmes # <<>> /\ fault = "insert"
            THEN [store |-> collection, ret |-> 0, caught |-> TRUE,
                  contacted |-> TRUE]
            ELSE [store |-> collection \o novos_filmes,
                  ret |-> Len(novos_filmes), caught |-> FALSE,
                  contacted |-> TRUE]

(***************************************************************************)
(* State.                                                                  *)
(*   file          content of page.txt: 0 when the file is absent          *)
(*   store         the documents of the collection, in insertion order     *)
(*   pc            "off" (no process), "loop" (line 241), "try" (line      *)
(*                 248), "save" (line 259), "ckpt" (line 264), "done"      *)
(*   START_PAGE, page, iter, attempt, page_movies, total_filmes            *)
(*                 the program's variables; iter is the next value of the  *)
(*                 range iterator of line 241; page is 0 while unbound     *)
(*   firstStart    START_PAGE of the first run                             *)
(*   completed     page iterations completed by the current run            *)
(*   calls         process_page calls made for the current page            *)
(*   last          how the latest process_page call of the page ended      *)
(*   enriched      number of items that call visited                       *)
(*   handed        page_movies was passed to save_to_mongodb               *)
(*   created       the load of this run found page.txt absent and created  *)
(*                 it (line 22); kept until the run takes its first page   *)
(*   startLen      number of documents in the store when the run started   *)
(*   returned      sum of the values save_to_mongodb returned to the run   *)
(*   writes        writes[p]: checkpoint writes made for page p, all runs  *)
(*   gj, pp, sm    the calls of get_json, process_page and save_to_mongodb *)
(*                 checked on their own                                    *)
(*   en            the steps of lines 150-166 checked on their own         *)
(***************************************************************************)
VARIABLES file, store, pc, START_PAGE, page, iter, attempt, page_movies,
          total_filmes, firstStart, completed, calls, last, enriched,
          handed, created, startLen, returned, writes,
          gj, pp, sm, en

progVars == <<START_PAGE, page, iter, attempt, page_movies, total_filmes>>
ghostVars == <<firstStart, completed, calls, last, enriched, handed, created,
               startLen, returned, writes>>
unitVars == <<gj, pp, sm, en>>
vars == <<file, store, pc, progVars, ghostVars, unitVars>>

Idle == [phase |-> "idle"]

\* The process is not running: its variables do not exist.
NoProcess ==
    /\ pc = "off"
    /\ START_PAGE = 0 /\ page = 0 /\ iter = 0 /\ attempt = 0
    /\ page_movies = <<>> /\ total_filmes = 0
    /\ completed = 0 /\ calls = 0 /\ last = "none" /\ enriched = 0
    /\ handed = FALSE /\ created = FALSE
    /\ startLen = 0 /\ returned = 0

\* Before the first start: page.txt is absent or holds a page number, and
\* the collection is empty.
Init ==
    /\ file \in 0..(END_PAGE + 1)
    /\ store = <<>>
    /\ NoProcess
    /\ firstStart = 0
    /\ writes = [p \in 1..END_PAGE |-> 0]
    /\ gj = Idle /\ pp = Idle /\ sm = Idle /\ en = Idle

(***************************************************************************)
(* The orchestrator: module start (lines 17-23) and main (lines 230-271).  *)
(***************************************************************************)
\* Mutant of StartPageOf: every run starts from page 1, whatever page.txt holds.
StartPageAlwaysOne(f) == 1

\* Lines 17-21: the start page read from page.txt, 1 when the file is absent.
StartPageOf(f) == IF f = 0 THEN 1 ELSE f

\* Mutant of FileAfterLoad: lines 22-23 are missing, an absent page.txt is
\* not created at the load.
FileNotCreated(f) == f

\* Lines 20-23: page.txt after the load; written only when it was absent.
FileAfterLoad(f) == IF f = 0 THEN 1 ELSE f

\* Mutant of CheckpointValue: the page after the next is written.
CheckpointSkipsPage(p) == p + 2

\* Mutant of CheckpointValue: the page just handled is written, not the next.
CheckpointSamePage(p) == p

\* Line 265: the value written to page.txt after the iteration of page p.
CheckpointValue(p) == p + 1

\* Mutant of NeedsSave: the page result is never passed to save_to_mongodb.
NeverSave(movies) == FALSE

\* Line 259: save_to_mongodb is called only with a non-empty page result.
NeedsSave(movies) == movies # <<>>

\* Mutant of RetryAgain: a failed listing fetch is retried like an exception.
RetryOnListingFailure(kind) == kind \in {"raise", "listfail"}

\* Mutant of RetryAgain: the break of line 249 is missing.
RetryAlways(kind) == TRUE

\* Lines 249-250: the retry loop goes on only when process_page raised.
RetryAgain(kind) == kind = "raise"

\* The item kinds of the listings the orchestrator's runs draw from: an item
\* is enriched in full (no cast), or its detail fetch fails (its title is
\* then never read).  The records of these runs differ in their titles only.
MainItemKinds ==
    [id : {1}, titulo : Titles, detail : {ScriptOk},
     credits : {ScriptOk}, badcrew : {FALSE}, cast : {FALSE}, person : {ScriptOk}]
    \cup
    [id : {1}, titulo : {1}, detail : {ScriptFail},
     credits : {ScriptOk}, badcrew : {FALSE}, cast : {FALSE}, person : {ScriptOk}]

\* The responses to the listing fetch in the orchestrator's runs.
MainListingScripts == {ScriptOk, ScriptFail, ScriptRaise}

\* The listings of at most n items of the given kinds.
ListingsOf(kinds, n) == UNION { [1..k -> kinds] : k \in 0..n }

\* Lines 17-23 and 237-239: the program starts, reads (or creates) page.txt
\* and enters main.
LoadStartPage ==
    /\ pc \in {"off", "done"}
    /\ START_PAGE' = StartPageOf(file)
    /\ file' = FileAfterLoad(file)
    /\ iter' = START_PAGE'
    /\ page' = 0 /\ attempt' = 0 /\ page_movies' = <<>> /\ total_filmes' = 0
    /\ pc' = "loop"
    /\ firstStart' = IF firstStart = 0 THEN START_PAGE' ELSE firstStart
    /\ completed' = 0 /\ calls' = 0 /\ last' = "none" /\ enriched' = 0
    /\ handed' = FALSE
    /\ created' = (file = 0)
    /\ startLen' = Len(store) /\ returned' = 0
    /\ UNCHANGED <<store, writes, unitVars>>

\* Mutant of NextPage: the range of line 241 ends one page later.
NextPagePastEnd ==
    /\ pc = "loop"
    /\ IF iter <= END_PAGE + 1
       THEN /\ page' = iter
            /\ iter' = iter + 1
            /\ page_movies' = <<>>
            /\ attempt' = 0
            /\ pc' = "try"
       ELSE /\ pc' = "done"
            /\ UNCHANGED <<page, iter, page_movies, attempt>>
    /\ calls' = 0 /\ last' = "none" /\ enriched' = 0 /\ handed' = FALSE
    /\ created' = FALSE
    /\ UNCHANGED <<file, store, START_PAGE, total_filmes, firstStart,
                   completed, startLen, returned, writes, unitVars>>

\* Lines 241-244 and 270-271: the head of the page loop.
NextPage ==
    /\ pc = "loop"
    /\ IF iter <= END_PAGE
       THEN /\ page' = iter
            /\ iter' = iter + 1
            /\ page_movies' = <<>>
            /\ attempt' = 0
            /\ pc' = "try"
       ELSE /\ pc' = "done"
            /\ UNCHANGED <<page, iter, page_movies, attempt>>
    /\ calls' = 0 /\ last' = "none" /\ enriched' = 0 /\ handed' = FALSE
    /\ created' = FALSE
    /\ UNCHANGED <<file, store, START_PAGE, total_filmes, firstStart,
                   completed, startLen, returned, writes, unitVars>>

\* Mutant of TryProcessPage: the except clause of line 250 is missing, an
\* exception of process_page ends the program.
TryProcessPageUncaught ==
    /\ pc = "try"
    /\ \E listing \in MainListingScripts,
          results \in ListingsOf(MainItemKinds, MaxBatch) :
          LET r == process_page(listing, results) IN
          /\ IF r.kind = "raise"
             THEN UNCHANGED page_movies
             ELSE page_movies' = r.movies
          /\ UNCHANGED attempt
          /\ pc' = IF r.kind = "raise" THEN "crashed" ELSE "save"
          /\ last' = r.kind
          /\ enriched' = Len(r.visited)
    /\ calls' = calls + 1
    /\ UNCHANGED <<file, store, START_PAGE, page, iter, total_filmes,
                   firstStart, completed, handed, created, startLen,
                   returned, writes, unitVars>>

\* Lines 246-256: one attempt of process_page for the page.
TryProcessPage ==
    /\ pc = "try"
    /\ \E listing \in MainListingScripts,
          results \in ListingsOf(MainItemKinds, MaxBatch) :
          LET r == process_page(listing, results) IN
          /\ IF r.kind = "raise"
             THEN UNCHANGED page_movies
             ELSE page_movies' = r.movies
          /\ IF RetryAgain(r.kind) /\ attempt < PageMaxRetries - 1
             THEN /\ attempt' = attempt + 1
                  /\ pc' = "try"
             ELSE /\ UNCHANGED attempt
                  /\ pc' = "save"
          /\ last' = r.kind
          /\ enriched' = Len(r.visited)
    /\ calls' = calls + 1
    /\ UNCHANGED <<file, store, START_PAGE, page, iter, total_filmes,
                   firstStart, completed, handed, created, startLen,
                   returned, writes, unitVars>>

\* Lines 258-261: the page's records go to the store.
SavePage ==
    /\ pc = "save"
    /\ IF NeedsSave(page_movies)
       THEN \E fault \in StoreFaults :
               LET r == save_to_mongodb(page_movies, store, fault) IN
               /\ store' = r.store
               /\ total_filmes' = total_filmes + r.ret
               /\ returned' = returned + r.ret
               /\ handed' = TRUE
       ELSE UNCHANGED <<store, total_filmes, returned, handed>>
    /\ pc' = "ckpt"
    /\ UNCHANGED <<file, START_PAGE, page, iter, attempt, page_movies,
                   firstStart, completed, calls, last, enriched, created,
                   startLen, writes, unitVars>>

\* Lines 263-268: page.txt is rewritten and the iteration ends.
SaveCheckpoint ==
    /\ pc = "ckpt"
    /\ file' = CheckpointValue(page)
    /\ writes' = [writes EXCEPT ![page] = @ + 1]
    /\ completed' = completed + 1
    /\ pc' = "loop"
    /\ UNCHANGED <<store, progVars, firstStart, calls, last, enriched,
                   handed, created, startLen, returned, unitVars>>

\* The process is killed while main runs: page.txt and the collection stay,
\* the program's variables are gone.
Kill ==
    /\ pc \in {"loop", "try", "save", "ckpt"}
    /\ pc' = "off"
    /\ START_PAGE' = 0 /\ page' = 0 /\ iter' = 0 /\ attempt' = 0
    /\ page_movies' = <<>> /\ total_filmes' = 0
    /\ completed' = 0 /\ calls' = 0 /\ last' = "none" /\ enriched' = 0
    /\ handed' = FALSE /\ created' = FALSE
    /\ startLen' = 0 /\ returned' = 0
    /\ UNCHANGED <<file, store, firstStart, writes, unitVars>>

Next ==
    \/ LoadStartPage
    \/ NextPage
    \/ TryProcessPage
    \/ SavePage
    \/ SaveCheckpoint
    \/ Kill

Spec == Init /\ [][Next]_vars

(***************************************************************************)
(* The orchestrator under fairness: a process that is not killed goes on   *)
(* executing main.  Kills and starts of the program are up to the user.    *)
(***************************************************************************)
MainStep == NextPage \/ TryProcessPage \/ SavePage \/ SaveCheckpoint

SpecLive == Init /\ [][Next]_vars /\ WF_vars(MainStep)

(***************************************************************************)
(* Claims about the orchestrator, checked under Spec.                      *)
(***************************************************************************)
StoreTitles == {store[i].titulo : i \in DOMAIN store}
InIteration == pc \in {"try", "save", "ckpt"}

\* C1: whenever page.txt holds a value greater than a page handled in this
\* run, the title of every record process_page returned for that page is in
\* the store.  Stated for the page handled last: at the loop head page_movies
\* still holds that page's result, and the store never loses a record.
C1_CheckpointOnlyAfterPersisted ==
    (pc \in {"loop", "done"} /\ page # 0 /\ file > page)
        => \A i \in DOMAIN page_movies : page_movies[i].titulo \in StoreTitles

\* C2: for every page, page.txt is written exactly once, with page+1, only
\* after process_page was called for the page and a non-empty result was
\* passed to save_to_mongodb; before that write page.txt holds a value <=
\* page, also in the state a kill leaves behind.
C2_CheckpointOncePerPageAfterSave ==
    /\ [](\A p \in 1..END_PAGE : writes[p] <= 1)
    /\ []((pc \in {"loop", "done"} /\ page # 0)
             => \A p \in START_PAGE..page : writes[p] = 1)
    /\ [](InIteration => (file <= page /\ writes[page] = 0))
    /\ [][(file' # file /\ file # 0)
             => /\ pc = "ckpt"
                /\ file' = page + 1
                /\ calls >= 1
                /\ (page_movies # <<>> => handed)]_vars
    /\ [][(InIteration /\ pc' = "off") => file' <= page]_vars

C2_Witness ==
    /\ pc = "loop" /\ page # 0
    /\ page_movies # <<>> /\ handed
    /\ writes[page] = 1 /\ file = page + 1

\* C3: the first page a run processes is the integer in page.txt, not the
\* page an earlier run started from, and the run processes no page below it.
C3_ResumeAtCheckpoint ==
    /\ (pc = "loop" /\ completed = 0) => (iter = file /\ START_PAGE = file)
    /\ (InIteration /\ completed = 0) => (page = file /\ START_PAGE = file)
    /\ InIteration => page >= START_PAGE

C3_Witness ==
    /\ pc = "try" /\ completed = 0
    /\ firstStart # 0 /\ START_PAGE > firstStart
    /\ page = file

\* C4: after N page iterations completed by a run that started at page P,
\* page.txt holds P+N.
C4_CheckpointIsStartPlusCompleted ==
    pc # "off" => file = START_PAGE + completed

C4_Witness ==
    /\ pc = "loop" /\ completed = 2
    /\ file = START_PAGE + 2

\* C6: no two records of the store share a title.
C6_NoTwoRecordsShareTitle ==
    \A i, j \in DOMAIN store : store[i].titulo = store[j].titulo => i = j

\* C8 as stated: after a failed listing fetch process_page has returned an
\* empty result without enriching an item, and the orchestrator attempts the
\* page again while its attempts last.
C8_ListingFailureRetriedOneLevelUp ==
    (last = "listfail" /\ calls < 3)
        => (page_movies = <<>> /\ enriched = 0 /\ pc = "try")

\* C8 amended: after a failed listing fetch process_page has returned an
\* empty result without enriching an item, and the orchestrator makes no
\* further attempt for the page: nothing is passed to save_to_mongodb and the
\* checkpoint moves to page+1.
C8_ListingFailureSkipsPage ==
    last = "listfail"
        => /\ page_movies = <<>> /\ enriched = 0
           /\ pc \in {"save", "ckpt", "loop"}
           /\ ~handed
           /\ (pc = "loop" => file = page + 1)

C8_Witness ==
    /\ last = "listfail" /\ pc = "loop" /\ calls = 1
    /\ file = page + 1

\* C9: process_page is called at most 3 times for a page, again only after
\* a call that raised; when all 3 calls raise, the page's result is empty,
\* the store is not written, page.txt moves to page+1, and no run processes
\* a page below the value of page.txt, which never decreases.
C9_PageRetryThenSkip ==
    /\ [](calls <= 3)
    /\ []((pc = "try" /\ calls > 0) => last = "raise")
    /\ []((calls = 3 /\ last = "raise")
             => /\ page_movies = <<>> /\ ~handed
                /\ pc \in {"save", "ckpt", "loop"}
                /\ (pc = "loop" => file = page + 1))
    /\ [][(calls = 3 /\ last = "raise") => store' = store]_vars
    /\ [](InIteration => page >= file)
    /\ [][file' >= file]_vars

C9_Witness ==
    /\ calls = 3 /\ last = "raise"
    /\ pc = "loop" /\ file = page + 1

\* The save_to_mongodb call of the page failed: the page result was handed
\* over and a title of it is still not in the store.
SaveFailed ==
    /\ handed
    /\ \E i \in DOMAIN page_movies : page_movies[i].titulo \notin StoreTitles

C12_RunTerminates ==
    /\ [](pc \in {"off", "loop", "try", "save", "ckpt", "done"})
    /\ [][page' # page
             => \/ pc' = "off" /\ page' = 0
                \/ pc \in {"off", "done"} /\ page' = 0
                \/ /\ pc = "loop" /\ pc' = "try"
                   /\ page' = IF page = 0 THEN START_PAGE ELSE page + 1]_vars
    /\ [](pc = "done"
             => /\ completed = END_PAGE + 1 - START_PAGE
                /\ \A p \in START_PAGE..END_PAGE : writes[p] = 1)
    /\ [](InIteration => page \in START_PAGE..END_PAGE)
    /\ (pc \in {"loop", "try", "save", "ckpt"}) ~> (pc \in {"done", "off"})

C12_Witness ==
    /\ pc = "done" /\ START_PAGE = 1 /\ page = END_PAGE
    /\ completed = END_PAGE
    /\ page_movies # <<>> /\ store = <<>> /\ total_filmes = 0

\* C13: when page.txt is absent at the load, the run starts at page 1 and
\* page.txt holds 1 before any page is processed; when it is present, the
\* run starts at the integer it holds and the load leaves the file as it is.
C13_CheckpointBootstrap ==
    /\ [][(pc \in {"off", "done"} /\ pc' = "loop")
             => IF file = 0
                THEN START_PAGE' = 1 /\ file' = 1
                ELSE START_PAGE' = file /\ file' = file]_vars
    /\ [](created => (START_PAGE = 1 /\ file = 1 /\ page = 0 /\ calls = 0))
    /\ [](InIteration => file # 0)

C13_Witness ==
    /\ pc = "loop" /\ created
    /\ START_PAGE = 1 /\ file = 1
    /\ page = 0 /\ completed = 0

C18_StoreAppendOnly ==
    [][/\ Len(store') >= Len(store)
       /\ SubSeq(store', 1, Len(store)) = store
       /\ \A i \in (Len(store) + 1)..Len(store') :
             store'[i].titulo \notin StoreTitles]_vars

C18_Witness ==
    /\ pc = "ckpt" /\ handed /\ completed = 0
    /\ startLen = 1 /\ Len(page_movies) = 2
    /\ page_movies[1] = store[1]
    /\ store = <<page_movies[1], page_movies[2]>>
    /\ total_filmes = 1

\* C19: the value of page.txt never decreases, over iterations, kills and
\* restarts; in a run that started at a page P <= END_PAGE it is within
\* P..END_PAGE+1.
C19_CheckpointMonotonic ==
    /\ [][file' >= file]_vars
    /\ []((pc # "off" /\ START_PAGE <= END_PAGE)
             => file \in START_PAGE..(END_PAGE + 1))

C19_Witness ==
    /\ pc = "done"
    /\ firstStart = 1 /\ START_PAGE = 2
    /\ completed = END_PAGE - 1
    /\ file = END_PAGE + 1

\* C20: a run that reaches the end of main leaves END_PAGE+1 in page.txt; a
\* run started from that value processes no page, fetches nothing, leaves
\* the store and page.txt as they are, and ends with a total of 0.
C20_FinishedRunIsFixpoint ==
    /\ [](pc = "done" => file = END_PAGE + 1)
    /\ []((pc # "off" /\ START_PAGE = END_PAGE + 1)
             => /\ pc \in {"loop", "done"}
                /\ page = 0 /\ calls = 0 /\ completed = 0
                /\ total_filmes = 0
                /\ Len(store) = startLen
                /\ file = END_PAGE + 1)
    /\ [][(pc' # "off" /\ START_PAGE' = END_PAGE + 1)
             => (store' = store /\ file' = file)]_vars
    /\ [][(pc = "loop" /\ START_PAGE = END_PAGE + 1 /\ pc' # "off")
             => pc' = "done"]_vars

C20_Witness ==
    /\ pc = "done"
    /\ START_PAGE = END_PAGE + 1
    /\ firstStart = 1 /\ store # <<>>
    /\ page = 0 /\ total_filmes = 0

(***************************************************************************)
(* get_json on its own: every sequence of MaxBudget attempt outcomes and   *)
(* every budget from 1 to MaxBudget.                                       *)
(***************************************************************************)
\* The state of the orchestrator while a function is checked on its own.
MainIdle ==
    /\ file = 0
    /\ NoProcess
    /\ firstStart = 0
    /\ writes = [p \in 1..END_PAGE |-> 0]

InitFetch ==
    /\ MainIdle /\ store = <<>>
    /\ gj \in [phase : {"in"}, resp : [1..MaxBudget -> Outcomes],
               max_retries : 1..MaxBudget]
    /\ pp = Idle /\ sm = Idle /\ en = Idle

GetJsonCall ==
    /\ gj.phase = "in"
    /\ gj' = [phase |-> "out", resp |-> gj.resp, max_retries |-> gj.max_retries,
              result |-> get_json(gj.resp, gj.max_retries)]
    /\ UNCHANGED <<file, store, pc, progVars, ghostVars, pp, sm, en>>

NextFetch == GetJsonCall

SpecFetch == InitFetch /\ [][NextFetch]_vars

Min(S) == CHOOSE x \in S : \A y \in S : x <= y

\* C7: get_json issues at most max_retries requests and never raises; it
\* returns the body of the first 200 response within the budget, None when
\* there is none; a 429 uses up one attempt like any other failure.
C7_FetchBudget ==
    gj.phase = "out" =>
        LET oks == {i \in 1..gj.max_retries : gj.resp[i] = "ok"} IN
        /\ gj.result.requests <= gj.max_retries
        /\ gj.result.kind # "raise"
        /\ IF oks # {}
           THEN /\ gj.result.kind = "json"
                /\ gj.result.body = Min(oks)
                /\ gj.result.requests = Min(oks)
           ELSE /\ gj.result.kind = "none"
                /\ gj.result.requests = gj.max_retries

\* Supplement to C7: the same statement for the calls in which no 429
\* response within the budget carries a Retry-After that is not an integer.
GetJsonBudgetWithIntegerRetryAfter ==
    (gj.phase = "out"
       /\ \A i \in 1..gj.max_retries : gj.resp[i] # "r429date")
        => C7_FetchBudget

(***************************************************************************)
(* process_page on its own: every listing of at most MaxItems items, every *)
(* way an item's enrichment can go, every answer to the listing fetch.     *)
(***************************************************************************)
PageScripts == {ScriptOk, ScriptFail, ScriptRaise}

\* One item kind per path through lines 137-184.
PageItemKinds ==
    { k \in [id : {1}, titulo : {1}, detail : PageScripts, credits : PageScripts,
             badcrew : BOOLEAN, cast : BOOLEAN, person : PageScripts] :
        /\ (k.detail # ScriptOk => k.credits = ScriptOk)
        /\ ((k.detail # ScriptOk \/ k.credits # ScriptOk) => ~k.badcrew)
        /\ ((k.detail # ScriptOk \/ k.credits # ScriptOk \/ k.badcrew) => ~k.cast)
        /\ (~k.cast => k.person = ScriptOk) }

\* The listings of at most n items of the given kinds, the i-th item being
\* movie i with title i.
NumberedListings(kinds, n) ==
    { [i \in DOMAIN f |-> [f[i] EXCEPT !.id = i, !.titulo = i]] :
        f \in ListingsOf(kinds, n) }

InitPage ==
    /\ MainIdle /\ store = <<>>
    /\ pp \in [phase : {"in"}, listing : FetchScripts,
               results : NumberedListings(PageItemKinds, MaxItems)]
    /\ gj = Idle /\ sm = Idle /\ en = Idle

ProcessPageCall ==
    /\ pp.phase = "in"
    /\ pp' = [phase |-> "out", listing |-> pp.listing, results |-> pp.results,
              result |-> process_page(pp.listing, pp.results)]
    /\ UNCHANGED <<file, store, pc, progVars, ghostVars, gj, sm, en>>

NextPageCall == ProcessPageCall

SpecPage == InitPage /\ [][NextPageCall]_vars

\* An item yields a record: both fetches return a body and nothing raises.
Fetched(script) ==
    \E i \in 1..DefaultMaxRetries :
        /\ script[i] = "ok"
        /\ \A j \in 1..(i - 1) : script[j] \notin {"ok", "r429date"}
Raises(script) ==
    \E i \in 1..DefaultMaxRetries :
        /\ script[i] = "r429date"
        /\ \A j \in 1..(i - 1) : script[j] \notin {"ok", "r429date"}
YieldsRecord(item) ==
    /\ Fetched(item.detail) /\ Fetched(item.credits)
    /\ ~item.badcrew
    /\ ~(item.cast /\ Raises(item.person))

\* C10: process_page visits every listed item once, in listing order, and
\* returns the records of exactly the items whose detail and credits fetches
\* succeeded and whose enrichment did not raise, in listing order.
C10_PageResult ==
    (pp.phase = "out" /\ pp.result.kind = "return") =>
        LET results == pp.results
            movies == pp.result.movies
            good == {i \in DOMAIN results : YieldsRecord(results[i])}
            rank(i) == Cardinality({j \in good : j <= i})
        IN /\ pp.result.visited = [i \in DOMAIN results |-> results[i].id]
           /\ Len(movies) = Cardinality(good)
           /\ \A i \in good :
                 /\ movies[rank(i)].movie = results[i].id
                 /\ movies[rank(i)].titulo = results[i].titulo

C10_Witness ==
    /\ pp.phase = "out" /\ pp.result.kind = "return"
    /\ Len(pp.results) = 3
    /\ ~YieldsRecord(pp.results[1])
    /\ ~YieldsRecord(pp.results[2])
    /\ YieldsRecord(pp.results[3])
    /\ pp.result.movies = <<[titulo |-> 3, movie |-> 3, atorPrincipal |-> "profile"]>>

(***************************************************************************)
(* save_to_mongodb on its own: the same list passed twice, on every store  *)
(* without two records of one title.                                       *)
(***************************************************************************)
Rec(t, m) == [titulo |-> t, movie |-> m, atorPrincipal |-> "None"]

InitialStores ==
    { [i \in DOMAIN f |-> Rec(f[i], 1)] :
        f \in { g \in ListingsOf(Titles, NumTitles) :
                  \A i, j \in DOMAIN g : g[i] = g[j] => i = j } }

RecordLists ==
    { [i \in DOMAIN f |-> Rec(f[i], i)] : f \in ListingsOf(Titles, MaxBatch) }

InitStore ==
    /\ MainIdle
    /\ store \in InitialStores
    /\ sm \in [phase : {"in"}, movies : RecordLists, calls : {0},
               rets : {<<>>}, faulted : {FALSE}]
    /\ gj = Idle /\ pp = Idle /\ en = Idle

SaveCall ==
    /\ sm.phase = "in"
    /\ sm.calls < 2
    /\ \E fault \in StoreFaults :
          LET r == save_to_mongodb(sm.movies, store, fault) IN
          /\ store' = r.store
          /\ sm' = [sm EXCEPT !.calls = @ + 1,
                              !.rets = Append(@, r.ret),
                              !.faulted = @ \/ r.caught]
    /\ UNCHANGED <<file, pc, progVars, ghostVars, gj, pp, en>>

NextStore == SaveCall

SpecStore == InitStore /\ [][NextStore]_vars

\* C5: after save_to_mongodb was called twice with the same list and no
\* store failure, the store holds each title of the list exactly once and
\* the second call returned 0.
C5_SaveTwiceIdempotent ==
    (sm.phase = "in" /\ sm.calls = 2 /\ ~sm.faulted) =>
        /\ sm.rets[2] = 0
        /\ \A i \in DOMAIN sm.movies :
              Cardinality({j \in DOMAIN store :
                              store[j].titulo = sm.movies[i].titulo}) = 1

(***************************************************************************)
(* Lines 150-178 on their own: every genre list of at most MaxGenres       *)
(* genres, every crew list of at most MaxCrew entries, every cast list of  *)
(* at most MaxCast entries with every answer to the person lookup.  The    *)
(* i-th cast entry is person i.                                            *)
(***************************************************************************)
Names == {"Ana", "Bia"}

GenreLists == ListingsOf([name : Names], MaxGenres)

CrewEntries == [name : Names, job : {"Director", "Producer"}] \cup [name : Names]

CrewLists == ListingsOf(CrewEntries, MaxCrew)

CastLists ==
    { [i \in DOMAIN f |-> [id |-> i, name |-> f[i]]] :
        f \in ListingsOf(Names, MaxCast) }

\* The parts are computed independently of each other, so one part varies at
\* a time; the cast lists are also tried behind a crew entry without 'job'.
FilmeInfoInputs ==
    [generos : GenreLists, crew : {<<>>}, elenco : {<<>>}, person : {ScriptOk}]
    \cup
    [generos : {<<>>}, crew : CrewLists, elenco : {<<>>}, person : {ScriptOk}]
    \cup
    [generos : {<<>>}, crew : {<<>>, <<[name |-> "Ana"]>>},
     elenco : CastLists, person : PageScripts]

InitEnrich ==
    /\ MainIdle /\ store = <<>>
    /\ \E i \in FilmeInfoInputs :
          en = [phase |-> "in", generos |-> i.generos, crew |-> i.crew,
                elenco |-> i.elenco, person |-> i.person]
    /\ gj = Idle /\ pp = Idle /\ sm = Idle

MontarFilmeInfo ==
    /\ en.phase = "in"
    /\ en' = [phase |-> "out", generos |-> en.generos, crew |-> en.crew,
              elenco |-> en.elenco, person |-> en.person,
              result |-> montar_filme_info(en.generos, en.crew, en.elenco,
                                           en.person)]
    /\ UNCHANGED <<file, store, pc, progVars, ghostVars, gj, pp, sm>>

NextEnrich == MontarFilmeInfo

SpecEnrich == InitEnrich /\ [][NextEnrich]_vars

Built == en.phase = "out" /\ en.result.kind = "append"

\* C14: the record's atoresCoadjuvantes are the names of the cast entries at
\* positions 1..min(n-1, 4) of a cast of n entries (counted from 0), in cast
\* order: 4 names for a cast of 10, none when n <= 1, never the entry at
\* position 0.
C14_SupportingCast ==
    Built =>
        LET elenco == en.elenco
            n == Len(elenco)
            coadjuvantes == en.result.filme_info.atoresCoadjuvantes
            upto == IF n - 1 < 4 THEN n - 1 ELSE 4
        IN /\ Len(coadjuvantes) = (IF n <= 1 THEN 0 ELSE upto)
           /\ \A k \in 1..Len(coadjuvantes) :
                 coadjuvantes[k] = elenco[k + 1].name
           /\ n = 10 => Len(coadjuvantes) = 4

C14_Witness ==
    /\ Built
    /\ Len(en.elenco) = 10
    /\ \A k \in 1..10 : en.elenco[k].name = (IF k \in {1, 3, 6} THEN "Ana" ELSE "Bia")
    /\ en.result.filme_info.atoresCoadjuvantes = <<"Bia", "Ana", "Bia", "Bia">>

\* C15: the record's genero is the name of the first genre, 'Desconhecido'
\* when there is no genre; its diretor is the name of the first crew entry
\* whose job is 'Director', 'Desconhecido' when there is none.
C15_GenreAndDirector ==
    Built =>
        LET generos == en.generos
            crew == en.crew
            directors == {i \in DOMAIN crew :
                            "job" \in DOMAIN crew[i] /\ crew[i].job = "Director"}
        IN /\ en.result.filme_info.genero
                = (IF generos = <<>> THEN "Desconhecido" ELSE generos[1].name)
           /\ en.result.filme_info.diretor
                = (IF directors = {} THEN "Desconhecido"
                   ELSE crew[Min(directors)].name)

C15_Witness ==
    /\ Built
    /\ en.crew = <<[name |-> "Ana", job |-> "Producer"],
                   [name |-> "Bia", job |-> "Director"],
                   [name |-> "Ana", job |-> "Director"]>>
    /\ en.result.filme_info.diretor = "Bia"
    /\ en.result.filme_info.genero = "Desconhecido"

\* The person lookup of line 161 was made and gave no profile.
LookupFails ==
    /\ en.phase = "out"
    /\ en.result.lookups # <<>>
    /\ ~Fetched(en.person)

\* C16: while a record is built at most one person is looked up, the first
\* cast entry, and nobody when the cast is empty; when that lookup fails the
\* record is still built, with atorPrincipal None.
C16_PrimaryLookup ==
    en.phase = "out" =>
        /\ Len(en.result.lookups) <= 1
        /\ \A k \in DOMAIN en.result.lookups :
              en.elenco # <<>> /\ en.result.lookups[k] = en.elenco[1].id
        /\ LookupFails
              => /\ en.result.kind = "append"
                 /\ en.result.filme_info.atorPrincipal = "None"

\* Supplement to C16: the same statement for the lookups that get_json does
\* not leave by an exception.
PrimaryLookupWithoutException ==
    (en.phase = "out" /\ ~Raises(en.person)) => C16_PrimaryLookup

====
